---- MODULE Spec2Model ----
(***************************************************************************)
(* A model of elections/src/proposal.rs: one Proposal, its lifecycle       *)
(* windows, vote_on_verified, revoke_votes, status, validate_vote and     *)
(* to_view.                                                                *)
(*                                                                         *)
(* Account ids are modelled as integers (their order is the order of       *)
(* AccountId), token ids as integers, times as milliseconds.  Vector       *)
(* indexes are 0-based as in the source; the TLA+ sequence holding a       *)
(* vector is read at idx + 1.                                              *)
(***************************************************************************)
EXTENDS Integers, Sequences, FiniteSets, TLC

VARIABLES
    p,      \* the Proposal (struct, proposal.rs lines 34-60)
    now,    \* env::block_timestamp_ms()
    last,   \* the call just made on the proposal, if any: its arguments,
            \* its outcome and the proposal before it
    used    \* history: tokens recorded by a successful vote_on_verified

vars == <<p, now, last, used>>

-----------------------------------------------------------------------------
(* Bounds of the model *)

(* vote_on_verified is not called once voters_num has reached this cap *)
MaxVotersNum == 2

(* end - start and cooldown of the modelled proposal, in milliseconds *)
VotingPeriod == 1
CooldownPeriod == 1

(* vote_on_verified is called with exactly one token: "now we require that
   sbts length is 1 (it's checked in the contract.on_vote_verified)". *)
SbtsLen == 1

(* token ids presented as proof, and the accounts that vote *)
Tokens == {1, 2}
Accounts == {1, 2}

ProposalType ==
    {"HouseOfMerit", "CouncilOfAdvisors", "TransparencyCommission", "SetupPackage"}

ProposalStatus == {"NOT_STARTED", "ONGOING", "COOLDOWN", "ENDED"}

(* max amount of seats a voter can allocate candidates for *)
Seats == 2

(* The candidate list of the modelled proposal: sorted, as the struct
   requires ("list of valid candidates. Must be ordered."). *)
Candidates == <<1, 3>>

(* Account ids a ballot may name: the candidates and one account between
   them that is no candidate. *)
BallotAccounts == {1, 2, 3}

Range(s) == {s[i] : i \in 1..Len(s)}

SeqsUpTo(S, n) == UNION {[1..k -> S] : k \in 0..n}

-----------------------------------------------------------------------------
(* Return values *)

Ok == [tag |-> "Ok", arg |-> <<>>]
Panic == [tag |-> "Panic", arg |-> <<>>]
DoubleVote(t) == [tag |-> "DoubleVote", arg |-> <<t>>]
NotActive == [tag |-> "NotActive", arg |-> <<>>]
NotVoted == [tag |-> "NotVoted", arg |-> <<>>]

-----------------------------------------------------------------------------
(* Proposal: timing *)

(* mutant: the voting window is taken to include the cooldown *)
assert_active_with_cooldown(q, t) == q.start <= t /\ t <= q.end + q.cooldown

assert_active(q, t) == q.start <= t /\ t <= q.end

(* mutant: the cooldown is left out of the revocation window *)
is_active_or_cooldown_no_cooldown(q, t) ==
    IF q.start <= t /\ t <= q.end THEN TRUE ELSE FALSE

(* mutant: the revocation window has no end *)
is_active_or_cooldown_no_end(q, t) == IF q.start <= t THEN TRUE ELSE FALSE

is_active_or_cooldown(q, t) ==
    IF q.start <= t /\ t <= (q.end + q.cooldown) THEN TRUE ELSE FALSE

is_past_cooldown(q, t) == t > q.end + q.cooldown

(* mutant: the end of voting is excluded from ONGOING *)
status_strict_end(q, t) ==
    IF t < q.start THEN "NOT_STARTED"
    ELSE IF t < q.end THEN "ONGOING"
    ELSE IF t <= q.cooldown + q.end THEN "COOLDOWN"
    ELSE "ENDED"

(* mutant: the values returned for the second and third window are swapped *)
status_swapped(q, t) ==
    IF t < q.start THEN "NOT_STARTED"
    ELSE IF t <= q.end THEN "COOLDOWN"
    ELSE IF t <= q.cooldown + q.end THEN "ONGOING"
    ELSE "ENDED"

status(q, t) ==
    IF t < q.start THEN "NOT_STARTED"
    ELSE IF t <= q.end THEN "ONGOING"
    ELSE IF t <= q.cooldown + q.end THEN "COOLDOWN"
    ELSE "ENDED"

-----------------------------------------------------------------------------
(* slice::binary_search on a sorted vector: Ok(idx) or Err(insertion point) *)

RECURSIVE bsearch(_, _, _, _)
bsearch(s, x, left, right) ==
    IF left < right
    THEN LET mid == left + ((right - left) \div 2)
         IN  IF s[mid + 1] < x THEN bsearch(s, x, mid + 1, right)
             ELSE IF s[mid + 1] > x THEN bsearch(s, x, left, mid)
             ELSE [is_ok |-> TRUE, idx |-> mid]
    ELSE [is_ok |-> FALSE, idx |-> left]

binary_search(s, x) == bsearch(s, x, 0, Len(s))

-----------------------------------------------------------------------------
(* validate_vote: "ok", or the message of the require! that fails *)

(* mutant: a candidate named twice is not looked for *)
RECURSIVE validate_candidates_no_set(_, _, _, _)
validate_candidates_no_set(vs, i, vote_for, valid_candidates) ==
    IF i > Len(vs) THEN "ok"
    ELSE IF ~binary_search(valid_candidates, vs[i]).is_ok
         THEN "vote for unknown option"
    ELSE validate_candidates_no_set(vs, i + 1, vote_for, valid_candidates)

RECURSIVE validate_candidates(_, _, _, _)
validate_candidates(vs, i, vote_for, valid_candidates) ==
    IF i > Len(vs) THEN "ok"
    ELSE IF vs[i] \in vote_for THEN "double vote for the same option"
    ELSE IF ~binary_search(valid_candidates, vs[i]).is_ok
         THEN "vote for unknown option"
    ELSE validate_candidates(vs, i + 1, vote_for \cup {vs[i]}, valid_candidates)

(* mutant: a ballot that uses all the credits is refused *)
validate_vote_strict_len(typ, vs, max_credits, valid_candidates) ==
    IF typ = "SetupPackage" /\ vs = <<>>
    THEN "setup package vote must be non empty"
    ELSE IF ~(Len(vs) < max_credits) THEN "max vote is seats"
    ELSE validate_candidates(vs, 1, {}, valid_candidates)

validate_vote(typ, vs, max_credits, valid_candidates) ==
    IF typ = "SetupPackage" /\ vs = <<>>
    THEN "setup package vote must be non empty"
    ELSE IF ~(Len(vs) <= max_credits) THEN "max vote is seats"
    ELSE validate_candidates(vs, 1, {}, valid_candidates)

-----------------------------------------------------------------------------
(* LookupMap: a map is a function on the set of its keys *)

EmptyMap == [k \in {} |-> <<>>]

contains_key(m, k) == k \in DOMAIN m

(* LookupMap::insert: the map with k bound to v, any previous value replaced *)
insert(m, k, v) == [x \in DOMAIN m \cup {k} |-> IF x = k THEN v ELSE m[x]]

(* mutant: the key is not removed *)
remove_nothing(m, k) == m

(* LookupMap::remove *)
remove(m, k) == [x \in DOMAIN m \ {k} |-> m[x]]

-----------------------------------------------------------------------------
(* Proposal::vote_on_verified *)

(* mutant: each index is put in front of the ones found before *)
RECURSIVE tally_vote_front(_, _, _, _)
tally_vote_front(candidates, acc, vote, i) ==
    IF i > Len(vote) THEN acc
    ELSE LET found == binary_search(candidates, vote[i])
         IN  IF ~found.is_ok THEN [acc EXCEPT !.panicked = TRUE]
             ELSE tally_vote_front(candidates,
                             [result   |-> [acc.result EXCEPT ![found.idx + 1] = @ + 1],
                              indexes  |-> <<found.idx>> \o acc.indexes,
                              panicked |-> FALSE],
                             vote, i + 1)

(* The loop over the ballot: each candidate's index is searched, its tally
   incremented and the index pushed.  unwrap() panics on a candidate that
   is not in the list. *)
RECURSIVE tally_vote(_, _, _, _)
tally_vote(candidates, acc, vote, i) ==
    IF i > Len(vote) THEN acc
    ELSE LET found == binary_search(candidates, vote[i])
         IN  IF ~found.is_ok THEN [acc EXCEPT !.panicked = TRUE]
             ELSE tally_vote(candidates,
                             [result   |-> [acc.result EXCEPT ![found.idx + 1] = @ + 1],
                              indexes  |-> Append(acc.indexes, found.idx),
                              panicked |-> FALSE],
                             vote, i + 1)

(* mutant: a duplicate is looked for under the voting account, in user_sbt *)
RECURSIVE insert_sbts_by_account(_, _, _, _, _)
insert_sbts_by_account(q, sbts, i, voter, indexes) ==
    IF i > Len(sbts) THEN [p |-> q, ret |-> Ok]
    ELSE LET t == sbts[i]
             is_some == contains_key(q.user_sbt, voter)
             q1 == [q EXCEPT !.voters = insert(q.voters, t, indexes)]
         IN  IF is_some THEN [p |-> q1, ret |-> DoubleVote(t)]
             ELSE insert_sbts_by_account(
                      [q1 EXCEPT !.user_sbt = insert(q1.user_sbt, voter, t)],
                      sbts, i + 1, voter, indexes)

(* mutant: the value insert returns is ignored *)
RECURSIVE insert_sbts_unchecked(_, _, _, _, _)
insert_sbts_unchecked(q, sbts, i, voter, indexes) ==
    IF i > Len(sbts) THEN [p |-> q, ret |-> Ok]
    ELSE LET t == sbts[i]
             q1 == [q EXCEPT !.voters = insert(q.voters, t, indexes)]
         IN  insert_sbts_unchecked(
                 [q1 EXCEPT !.user_sbt = insert(q1.user_sbt, voter, t)],
                 sbts, i + 1, voter, indexes)

(* mutant: an account keeps the first token recorded for it *)
RECURSIVE insert_sbts_keep_first(_, _, _, _, _)
insert_sbts_keep_first(q, sbts, i, voter, indexes) ==
    IF i > Len(sbts) THEN [p |-> q, ret |-> Ok]
    ELSE LET t == sbts[i]
             is_some == contains_key(q.voters, t)
             q1 == [q EXCEPT !.voters = insert(q.voters, t, indexes)]
         IN  IF is_some THEN [p |-> q1, ret |-> DoubleVote(t)]
             ELSE insert_sbts_keep_first(
                      IF contains_key(q1.user_sbt, voter) THEN q1
                      ELSE [q1 EXCEPT !.user_sbt = insert(q1.user_sbt, voter, t)],
                      sbts, i + 1, voter, indexes)

(* The loop over the tokens: the insert happens, and a token that was
   already a key ends the call with DoubleVote, before user_sbt is set. *)
RECURSIVE insert_sbts(_, _, _, _, _)
insert_sbts(q, sbts, i, voter, indexes) ==
    IF i > Len(sbts) THEN [p |-> q, ret |-> Ok]
    ELSE LET t == sbts[i]
             is_some == contains_key(q.voters, t)
             q1 == [q EXCEPT !.voters = insert(q.voters, t, indexes)]
         IN  IF is_some THEN [p |-> q1, ret |-> DoubleVote(t)]
             ELSE insert_sbts([q1 EXCEPT !.user_sbt = insert(q1.user_sbt, voter, t)],
                              sbts, i + 1, voter, indexes)

(* A panic aborts the call: the proposal is left as it was before it. *)
vote_on_verified(q, t, sbts, voter, vote) ==
    IF ~assert_active(q, t) THEN [p |-> q, ret |-> Panic]
    ELSE LET q1 == [q EXCEPT !.voters_num = @ + 1]
             tl == tally_vote(q.candidates,
                              [result |-> q.result, indexes |-> <<>>, panicked |-> FALSE],
                              vote, 1)
         IN  IF tl.panicked THEN [p |-> q, ret |-> Panic]
             ELSE insert_sbts([q1 EXCEPT !.result = tl.result], sbts, 1, voter, tl.indexes)

-----------------------------------------------------------------------------
(* Proposal::revoke_votes *)

(* mutant: only the first recorded index is decremented *)
untally_vote_first_only(acc, vote, i, overflow_checks) ==
    IF i > Len(vote) THEN acc
    ELSE IF overflow_checks /\ acc.result[vote[i] + 1] = 0
         THEN [acc EXCEPT !.panicked = TRUE]
    ELSE [acc EXCEPT !.result[vote[i] + 1] = @ - 1]

(* x -= 1 on an unsigned integer.  Values are kept as representatives
   modulo the width of the type, so the wrapped result of 0 - 1 (the
   maximum of the type) is the representative -1.  With overflow checks
   built in, 0 - 1 panics instead. *)
RECURSIVE untally_vote(_, _, _, _)
untally_vote(acc, vote, i, overflow_checks) ==
    IF i > Len(vote) THEN acc
    ELSE IF overflow_checks /\ acc.result[vote[i] + 1] = 0
         THEN [acc EXCEPT !.panicked = TRUE]
    ELSE untally_vote([acc EXCEPT !.result[vote[i] + 1] = @ - 1],
                      vote, i + 1, overflow_checks)

(* mutant: voters_num is decremented before the token is looked up *)
revoke_votes_count_first(q, t, token_id, overflow_checks) ==
    IF ~is_active_or_cooldown(q, t) THEN [p |-> q, ret |-> NotActive]
    ELSE IF ~contains_key(q.voters, token_id)
         THEN [p |-> [q EXCEPT !.voters_num = @ - 1], ret |-> NotVoted]
    ELSE LET vote == q.voters[token_id]
             un == untally_vote([result |-> q.result, panicked |-> FALSE],
                                vote, 1, overflow_checks)
         IN  IF un.panicked \/ (overflow_checks /\ q.voters_num = 0)
             THEN [p |-> q, ret |-> Panic]
             ELSE [p   |-> [q EXCEPT !.result = un.result,
                                     !.voters_num = @ - 1,
                                     !.voters = remove(q.voters, token_id)],
                   ret |-> Ok]

(* mutant: voters_num is not decremented *)
revoke_votes_keep_count(q, t, token_id, overflow_checks) ==
    IF ~is_active_or_cooldown(q, t) THEN [p |-> q, ret |-> NotActive]
    ELSE IF ~contains_key(q.voters, token_id) THEN [p |-> q, ret |-> NotVoted]
    ELSE LET vote == q.voters[token_id]
             un == untally_vote([result |-> q.result, panicked |-> FALSE],
                                vote, 1, overflow_checks)
         IN  IF un.panicked THEN [p |-> q, ret |-> Panic]
             ELSE [p   |-> [q EXCEPT !.result = un.result,
                                     !.voters = remove(q.voters, token_id)],
                   ret |-> Ok]

(* mutant: the account's entry of user_sbt is removed with the vote *)
revoke_votes_clear_user_sbt(q, t, token_id, overflow_checks) ==
    IF ~is_active_or_cooldown(q, t) THEN [p |-> q, ret |-> NotActive]
    ELSE IF ~contains_key(q.voters, token_id) THEN [p |-> q, ret |-> NotVoted]
    ELSE LET vote == q.voters[token_id]
             un == untally_vote([result |-> q.result, panicked |-> FALSE],
                                vote, 1, overflow_checks)
         IN  IF un.panicked \/ (overflow_checks /\ q.voters_num = 0)
             THEN [p |-> q, ret |-> Panic]
             ELSE [p   |-> [q EXCEPT !.result = un.result,
                                     !.voters_num = @ - 1,
                                     !.voters = remove(q.voters, token_id),
                                     !.user_sbt = [a \in {x \in DOMAIN q.user_sbt :
                                                            q.user_sbt[x] # token_id}
                                                   |-> q.user_sbt[a]]],
                   ret |-> Ok]

revoke_votes(q, t, token_id, overflow_checks) ==
    IF ~is_active_or_cooldown(q, t) THEN [p |-> q, ret |-> NotActive]
    ELSE IF ~contains_key(q.voters, token_id) THEN [p |-> q, ret |-> NotVoted]
    ELSE LET vote == q.voters[token_id]
             un == untally_vote([result |-> q.result, panicked |-> FALSE],
                                vote, 1, overflow_checks)
         IN  IF un.panicked \/ (overflow_checks /\ q.voters_num = 0)
             THEN [p |-> q, ret |-> Panic]
             ELSE [p   |-> [q EXCEPT !.result = un.result,
                                     !.voters_num = @ - 1,
                                     !.voters = remove(q.voters, token_id)],
                   ret |-> Ok]

-----------------------------------------------------------------------------
(* The state machine *)

(* Ballots handed to vote_on_verified have passed validate_vote. *)
Ballots == SeqsUpTo(BallotAccounts, Len(Candidates) + 1)

SbtsInputs == [1..SbtsLen -> Tokens]

(* The record of a call: its arguments (sbts, voter, vote for
   vote_on_verified, token_id for revoke_votes, each <<>> where the call
   has none), the block time, the value returned, the proposal and the
   used tokens before the call, and in `follows` the proposal before the
   call made just before this one, when that call succeeded on the same
   single token. *)
NoCall(q) ==
    [op |-> "none", sbts |-> <<>>, voter |-> <<>>, vote |-> <<>>, token_id |-> <<>>,
     now |-> 0, ret |-> Ok, pre |-> q, used |-> {}, follows |-> <<>>]

Follows(token) ==
    IF last.op # "none" /\ last.ret = Ok /\ last.sbts \o last.token_id = <<token>>
    THEN <<[op |-> last.op, pre |-> last.pre]>>
    ELSE <<>>

(* The proposal as constructed: the type of the unit tests' proposals,
   zeroed result, empty maps; block time starts before the proposal does. *)
Init ==
    /\ p = [typ |-> "CouncilOfAdvisors",
            ref_link |-> "near.social/abc",
            start |-> 1,
            end |-> 1 + VotingPeriod,
            cooldown |-> CooldownPeriod,
            quorum |-> 1,
            seats |-> Seats,
            candidates |-> Candidates,
            result |-> [i \in 1..Len(Candidates) |-> 0],
            voters |-> EmptyMap,
            voters_num |-> 0,
            min_candidate_support |-> 1,
            user_sbt |-> EmptyMap]
    /\ now = 0
    /\ last = NoCall(p)
    /\ used = {}

(* block time passes *)
Tick ==
    /\ now <= p.end + p.cooldown
    /\ now' = now + 1
    /\ last' = NoCall(p)
    /\ UNCHANGED <<p, used>>

VoteOnVerified ==
    \E sbts \in SbtsInputs, voter \in Accounts, vote \in Ballots :
        /\ validate_vote(p.typ, vote, p.seats, p.candidates) = "ok"
        /\ p.voters_num < MaxVotersNum
        /\ LET r == vote_on_verified(p, now, sbts, voter, vote)
           IN  /\ p' = r.p
               /\ last' = [op |-> "vote_on_verified", sbts |-> sbts,
                           voter |-> <<voter>>, vote |-> vote, token_id |-> <<>>,
                           now |-> now, ret |-> r.ret, pre |-> p, used |-> used,
                           follows |-> IF Len(sbts) = 1 THEN Follows(sbts[1]) ELSE <<>>]
               /\ used' = IF r.ret = Ok THEN used \cup Range(sbts) ELSE used
        /\ UNCHANGED now

RevokeVotes ==
    \E token_id \in Tokens, overflow_checks \in BOOLEAN :
        LET r == revoke_votes(p, now, token_id, overflow_checks)
        IN  /\ p' = r.p
            /\ last' = [op |-> "revoke_votes", sbts |-> <<>>, voter |-> <<>>,
                        vote |-> <<>>, token_id |-> <<token_id>>,
                        now |-> now, ret |-> r.ret, pre |-> p, used |-> used,
                        follows |-> Follows(token_id)]
            /\ UNCHANGED <<now, used>>

Next == Tick \/ VoteOnVerified \/ RevokeVotes

Spec == Init /\ [][Next]_vars

-----------------------------------------------------------------------------
(* Proposal::status as a function of its inputs: a proposal of any timing
   with start <= end, asked for its status at times that never go back. *)

(* start, end and cooldown are drawn from 0..MaxTime *)
MaxTime == 2

Times == 0..(2 * MaxTime + 1)

(* a Proposal with the given fields and empty maps *)
NewProposal(typ, start, end, cooldown, seats, candidates, result, voters_num) ==
    [typ |-> typ,
     ref_link |-> "near.social/abc",
     start |-> start,
     end |-> end,
     cooldown |-> cooldown,
     quorum |-> 1,
     seats |-> seats,
     candidates |-> candidates,
     result |-> result,
     voters |-> EmptyMap,
     voters_num |-> voters_num,
     min_candidate_support |-> 1,
     user_sbt |-> EmptyMap]

InitStatus ==
    /\ \E start \in 0..MaxTime, cooldown \in 0..MaxTime :
         \E end \in start..MaxTime :
            p = NewProposal("CouncilOfAdvisors", start, end, cooldown, Seats,
                            Candidates, [i \in 1..Len(Candidates) |-> 0], 0)
    /\ now = 0
    /\ last = NoCall(p)
    /\ used = {}

(* status(t) at a time t that is not before the time of the call before;
   `before` is the status at that earlier time *)
CallStatus ==
    \E t \in Times :
        /\ now <= t
        /\ now' = t
        /\ last' = [op |-> "status", now |-> t, ret |-> status(p, t),
                    before |-> [now |-> now, ret |-> status(p, now)]]
        /\ UNCHANGED <<p, used>>

NextStatus == CallStatus

SpecStatus == InitStatus /\ [][NextStatus]_vars

-----------------------------------------------------------------------------
(* validate_vote as a function of its inputs: any proposal type, any
   credit limit up to Seats, any sorted candidate list and any ballot over
   the accounts 1..MaxAccount. *)

MaxAccount == 4

RECURSIVE SortedSeq(_)
SortedSeq(S) ==
    IF S = {} THEN <<>>
    ELSE LET m == CHOOSE x \in S : \A y \in S : x <= y
         IN  <<m>> \o SortedSeq(S \ {m})

(* the sorted candidate lists without duplicates *)
CandidateLists == {SortedSeq(S) : S \in SUBSET (1..MaxAccount)}

AnyBallots == SeqsUpTo(1..MaxAccount, Seats + 1)

InitValidate ==
    /\ \E typ \in ProposalType, seats \in 0..Seats, candidates \in CandidateLists :
         p = NewProposal(typ, 1, 1 + VotingPeriod, CooldownPeriod, seats,
                         candidates, [i \in 1..Len(candidates) |-> 0], 0)
    /\ now = 0
    /\ last = NoCall(p)
    /\ used = {}

CallValidateVote ==
    \E vs \in AnyBallots :
        /\ last' = [op |-> "validate_vote", vote |-> vs,
                    ret |-> validate_vote(p.typ, vs, p.seats, p.candidates)]
        /\ UNCHANGED <<p, now, used>>

NextValidate == CallValidateVote

SpecValidate == InitValidate /\ [][NextValidate]_vars

-----------------------------------------------------------------------------
(* Proposal::to_view *)

(* the loop pairing candidates[i] with result[i] *)
RECURSIVE view_result(_, _, _)
view_result(q, i, acc) ==
    IF i >= Len(q.candidates) THEN acc
    ELSE view_result(q, i + 1, Append(acc, <<q.candidates[i + 1], q.result[i + 1]>>))

(* mutant: quorum and voters_num, both u32, are taken for one another *)
to_view_swapped(q, id) ==
    IF Len(q.result) < Len(q.candidates) THEN Panic
    ELSE [id |-> id,
          typ |-> q.typ,
          ref_link |-> q.ref_link,
          start |-> q.start,
          end |-> q.end,
          cooldown |-> q.cooldown,
          quorum |-> q.voters_num,
          voters_num |-> q.quorum,
          seats |-> q.seats,
          result |-> view_result(q, 0, <<>>)]

(* self.result[i] panics when result is shorter than candidates *)
to_view(q, id) ==
    IF Len(q.result) < Len(q.candidates) THEN Panic
    ELSE [id |-> id,
          typ |-> q.typ,
          ref_link |-> q.ref_link,
          start |-> q.start,
          end |-> q.end,
          cooldown |-> q.cooldown,
          quorum |-> q.quorum,
          voters_num |-> q.voters_num,
          seats |-> q.seats,
          result |-> view_result(q, 0, <<>>)]

(* tallies and voter counts of the proposals viewed are drawn from
   0..MaxTally *)
MaxTally == 1

(* ids a view is asked with: 12 is the id of the unit test *)
ViewIds == {0, 12}

InitView ==
    /\ \E typ \in ProposalType, candidates \in CandidateLists,
          start \in 0..1, voters_num \in 0..MaxTally :
         \E result \in [1..Len(candidates) -> 0..MaxTally] :
            p = NewProposal(typ, start, 1 + VotingPeriod, CooldownPeriod, Seats,
                            candidates, result, voters_num)
    /\ now = 0
    /\ last = NoCall(p)
    /\ used = {}

CallToView ==
    \E id \in ViewIds :
        /\ last' = [op |-> "to_view", id |-> id, ret |-> to_view(p, id), pre |-> p]
        /\ UNCHANGED <<p, now, used>>

NextView == CallToView

SpecView == InitView /\ [][NextView]_vars

-----------------------------------------------------------------------------
(* The state machine of Spec on a proposal of any number of seats from 1
   to Seats: with one seat for two candidates, the credit limit is what
   keeps a ballot short. *)

InitSeats ==
    /\ \E seats \in 1..Seats :
         p = NewProposal("CouncilOfAdvisors", 1, 1 + VotingPeriod, CooldownPeriod,
                         seats, Candidates, [i \in 1..Len(Candidates) |-> 0], 0)
    /\ now = 0
    /\ last = NoCall(p)
    /\ used = {}

SpecSeats == InitSeats /\ [][Next]_vars

-----------------------------------------------------------------------------
(* Properties.  A property of a call is stated on the state right after
   it: `last` holds the call, last.pre the proposal before it, p the
   proposal after it. *)

IsVote == last.op = "vote_on_verified"
IsRevoke == last.op = "revoke_votes"

(* the single token a vote_on_verified call presents *)
VoteToken == last.sbts[1]
RevokeToken == last.token_id[1]

StatusAtCall == status(last.pre, last.now)

Indexes(q) == 0..(Len(q.candidates) - 1)

(* how many entries of voters hold index i *)
BallotsNaming(q, i) == Cardinality({t \in DOMAIN q.voters : i \in Range(q.voters[t])})

RECURSIVE SumSeq(_)
SumSeq(s) == IF s = <<>> THEN 0 ELSE Head(s) + SumSeq(Tail(s))

RECURSIVE SumLens(_, _)
SumLens(m, keys) ==
    IF keys = {} THEN 0
    ELSE LET k == CHOOSE x \in keys : TRUE
         IN  Len(m[k]) + SumLens(m, keys \ {k})

TalliesSame(q1, q2) ==
    /\ q1.result = q2.result
    /\ q1.voters_num = q2.voters_num
    /\ q1.voters = q2.voters

(* C1: in every reachable state, result[i] is the number of entries of
   voters whose index list contains i, and the sum of result is the sum of
   the lengths of the voters' index lists. *)
TallyConsistency ==
    /\ \A i \in Indexes(p) : p.result[i + 1] = BallotsNaming(p, i)
    /\ SumSeq(p.result) = SumLens(p.voters, DOMAIN p.voters)

(* C2: in every reachable state, voters_num is the number of keys of
   voters. *)
VoterCountConsistency == p.voters_num = Cardinality(DOMAIN p.voters)

(* C3: after a vote_on_verified that failed (Err(DoubleVote), or rejected
   by assert_active), result, voters_num, voters and user_sbt are what
   they were before the call. *)
FailedVoteAtomic ==
    (IsVote /\ last.ret # Ok) =>
        /\ TalliesSame(p, last.pre)
        /\ p.user_sbt = last.pre.user_sbt

(* C4: while ONGOING, a vote_on_verified that presents a token which is a
   key of voters returns Err(DoubleVote(token)) with that token, whatever
   the voting account and the ballot. *)
DoubleVoteRejected ==
    (IsVote /\ StatusAtCall = "ONGOING" /\ contains_key(last.pre.voters, VoteToken))
        => last.ret = DoubleVote(VoteToken)

(* the token was a key, and is presented by another account than the one
   that voted with it *)
DoubleVoteRejectedWitness ==
    /\ IsVote /\ StatusAtCall = "ONGOING"
    /\ contains_key(last.pre.voters, VoteToken)
    /\ last.ret = DoubleVote(VoteToken)
    /\ \E a \in DOMAIN last.pre.user_sbt :
           last.pre.user_sbt[a] = VoteToken /\ <<a>> # last.voter

(* C5: no decrement of revoke_votes underflows: every result[i] and
   voters_num stay >= 0 (no wrapped value) and no revoke_votes panics. *)
NoTallyUnderflow ==
    /\ \A i \in Indexes(p) : p.result[i + 1] >= 0
    /\ p.voters_num >= 0
    /\ ~(IsRevoke /\ last.ret = Panic)

(* a revoke brought a tally and the voter count down to 0 *)
NoTallyUnderflowWitness ==
    /\ IsRevoke /\ last.ret = Ok
    /\ p.voters_num = 0 /\ last.pre.voters_num = 1
    /\ \E i \in Indexes(p) : last.pre.result[i + 1] = 1 /\ p.result[i + 1] = 0

(* C6, as claimed: a vote_on_verified presenting a token that a successful
   vote_on_verified has recorded before fails with DoubleVote(token), at
   any later time and after a revoke of the token too. *)
OnceOnlyToken ==
    (IsVote /\ VoteToken \in last.used) => last.ret = DoubleVote(VoteToken)

(* C6, amended: while ONGOING, a vote_on_verified presenting a token that
   a successful vote_on_verified has recorded before fails with
   DoubleVote(token) as long as the token is still a key of voters, and
   succeeds once revoke_votes has removed it. *)
OnceOnlyUntilRevoked ==
    (IsVote /\ VoteToken \in last.used /\ StatusAtCall = "ONGOING") =>
        last.ret = IF contains_key(last.pre.voters, VoteToken)
                   THEN DoubleVote(VoteToken) ELSE Ok

(* a token votes again right after its vote was revoked *)
OnceOnlyUntilRevokedWitness ==
    /\ IsVote /\ VoteToken \in last.used
    /\ last.follows # <<>> /\ last.follows[1].op = "revoke_votes"
    /\ ~contains_key(last.pre.voters, VoteToken)
    /\ last.ret = Ok
    /\ contains_key(p.voters, VoteToken)

(* C7: while ONGOING or in COOLDOWN, revoke_votes on a token that is no
   key of voters returns Err(NotVoted) and leaves result, voters_num and
   voters unchanged. *)
RevokeAbsentToken ==
    (/\ IsRevoke
     /\ StatusAtCall \in {"ONGOING", "COOLDOWN"}
     /\ ~contains_key(last.pre.voters, RevokeToken))
        => (last.ret = NotVoted /\ TalliesSame(p, last.pre))

(* the token was revoked by the call just before *)
RevokeAbsentTokenWitness ==
    /\ IsRevoke
    /\ last.follows # <<>> /\ last.follows[1].op = "revoke_votes"
    /\ ~contains_key(last.pre.voters, RevokeToken)
    /\ last.ret = NotVoted
    /\ \E i \in Indexes(p) : p.result[i + 1] = 0

(* C8: a successful vote_on_verified with a token followed by a successful
   revoke_votes of that token leaves result, voters_num and voters as they
   were before the vote. *)
VoteRevokeRoundTrip ==
    (/\ IsRevoke /\ last.ret = Ok
     /\ last.follows # <<>> /\ last.follows[1].op = "vote_on_verified")
        => TalliesSame(p, last.follows[1].pre)

(* a ballot of two candidates was cast and revoked, on a proposal that
   held another voter's entry *)
VoteRevokeRoundTripWitness ==
    /\ IsRevoke /\ last.ret = Ok
    /\ last.follows # <<>> /\ last.follows[1].op = "vote_on_verified"
    /\ Len(last.pre.voters[RevokeToken]) = 2
    /\ DOMAIN p.voters # {}
    /\ TalliesSame(p, last.follows[1].pre)

(* C9: vote_on_verified succeeds only if start <= now <= end; outside
   that window the call is rejected and result, voters and voters_num are
   unchanged. *)
VoteOnlyWhileOngoing ==
    IsVote =>
        LET ongoing == last.pre.start <= last.now /\ last.now <= last.pre.end
        IN  /\ last.ret = Ok => ongoing
            /\ ~ongoing => (last.ret = Panic /\ TalliesSame(p, last.pre))
            /\ ongoing <=> StatusAtCall = "ONGOING"

(* a vote presented in the cooldown window is rejected *)
VoteOnlyWhileOngoingWitness ==
    /\ IsVote /\ StatusAtCall = "COOLDOWN"
    /\ last.ret = Panic
    /\ DOMAIN p.voters # {}

(* C10: revoke_votes on a key of voters succeeds exactly when
   start <= now <= end + cooldown (ONGOING or COOLDOWN); outside that
   window it returns Err(NotActive), for a token that is no key too, and
   leaves result, voters_num and voters unchanged. *)
RevocationWindow ==
    IsRevoke =>
        LET inside == /\ last.pre.start <= last.now
                      /\ last.now <= last.pre.end + last.pre.cooldown
        IN  /\ contains_key(last.pre.voters, RevokeToken) => (last.ret = Ok <=> inside)
            /\ ~inside => (last.ret = NotActive /\ TalliesSame(p, last.pre))
            /\ inside <=> StatusAtCall \in {"ONGOING", "COOLDOWN"}

(* a recorded token is revoked in the cooldown window *)
RevocationWindowWitness ==
    /\ IsRevoke /\ StatusAtCall = "COOLDOWN"
    /\ contains_key(last.pre.voters, RevokeToken)
    /\ last.ret = Ok
    /\ ~contains_key(p.voters, RevokeToken)

(* C11: with block time never going back, once now > end + cooldown has
   been reached it stays so, and no step (no vote_on_verified, no
   revoke_votes) changes result, voters or voters_num any more. *)
ImmutableAfterCooldown ==
    [][is_past_cooldown(p, now) =>
          (is_past_cooldown(p', now') /\ TalliesSame(p', p))]_vars

(* past the cooldown, a revoke of a recorded token was refused and the
   token is still recorded *)
ImmutableAfterCooldownWitness ==
    /\ IsRevoke /\ is_past_cooldown(last.pre, last.now)
    /\ StatusAtCall = "ENDED"
    /\ contains_key(last.pre.voters, RevokeToken)
    /\ last.ret = NotActive
    /\ p.voters = last.pre.voters /\ p.voters_num > 0

(* the unit tests' proposal: start = 0, end = 100, cooldown = 10 *)
StatusExample ==
    LET q == NewProposal("CouncilOfAdvisors", 0, 100, 10, Seats, Candidates, <<0, 0>>, 0)
    IN  /\ status(q, 0) = "ONGOING"
        /\ status(q, 100) = "ONGOING"
        /\ status(q, 101) = "COOLDOWN"
        /\ status(q, 110) = "COOLDOWN"
        /\ status(q, 111) = "ENDED"

(* C12: status(now) is one of the four values, NOT_STARTED iff now < start,
   ONGOING iff start <= now <= end, COOLDOWN iff end < now <= end +
   cooldown, ENDED iff now > end + cooldown; and the example of
   start = 0, end = 100, cooldown = 10. *)
StatusPartition ==
    (last.op = "status") =>
        LET s == last.ret
            t == last.now
        IN  /\ s \in ProposalStatus
            /\ s = "NOT_STARTED" <=> t < p.start
            /\ s = "ONGOING" <=> (p.start <= t /\ t <= p.end)
            /\ s = "COOLDOWN" <=> (p.end < t /\ t <= p.end + p.cooldown)
            /\ s = "ENDED" <=> t > p.end + p.cooldown
            /\ StatusExample

(* the last instant of a cooldown, of a proposal that has a voting period *)
StatusPartitionWitness ==
    /\ last.op = "status"
    /\ p.start < p.end /\ p.cooldown > 0
    /\ last.now = p.end + p.cooldown
    /\ last.ret = "COOLDOWN"
    /\ last.before.ret = "ONGOING" /\ last.before.now = p.end

(* the order NOT_STARTED < ONGOING < COOLDOWN < ENDED *)
StatusRank(s) ==
    CASE s = "NOT_STARTED" -> 0
      [] s = "ONGOING" -> 1
      [] s = "COOLDOWN" -> 2
      [] s = "ENDED" -> 3

(* C17: for now1 <= now2, status(now1) is not later than status(now2) in
   the order NOT_STARTED < ONGOING < COOLDOWN < ENDED. *)
LifecycleMonotone ==
    (last.op = "status") =>
        /\ last.before.now <= last.now
        /\ StatusRank(last.before.ret) <= StatusRank(last.ret)

(* the status moved on between two calls, past the cooldown window *)
LifecycleMonotoneWitness ==
    /\ last.op = "status"
    /\ last.before.now < last.now
    /\ last.before.ret = "ONGOING"
    /\ last.ret = "ENDED"
    /\ p.cooldown > 0

(* C13: validate_vote rejects a ballot exactly when the type is
   SetupPackage and the ballot is empty, or the ballot has more entries
   than max_credits, or it names a candidate twice, or it names a
   candidate that is not in the sorted candidate list. *)
ValidateVoteRejects ==
    (last.op = "validate_vote") =>
        LET vs == last.vote
        IN  last.ret # "ok" <=>
                \/ (p.typ = "SetupPackage" /\ vs = <<>>)
                \/ Len(vs) > p.seats
                \/ \E i, j \in 1..Len(vs) : i < j /\ vs[i] = vs[j]
                \/ \E i \in 1..Len(vs) : vs[i] \notin Range(p.candidates)

(* a ballot within the credits, without repetition, is rejected for its
   second candidate, which is not in a list of three *)
ValidateVoteRejectsWitness ==
    /\ last.op = "validate_vote"
    /\ Len(p.candidates) = 3 /\ Len(last.vote) = 2 /\ p.seats = 2
    /\ last.vote[1] \in Range(p.candidates)
    /\ last.vote[2] \notin Range(p.candidates)
    /\ last.ret = "vote for unknown option"

(* the proposal of the unit test revoke_votes: result [3, 1], token 1 ->
   [0, 1], token 2 -> [0], token 3 -> [0]; tokens 1, 2, 3 revoked in turn *)
RevokeVotesExample ==
    LET q0 == [NewProposal("CouncilOfAdvisors", 0, 100, 10, 2, <<1, 2>>, <<3, 1>>, 3)
                 EXCEPT !.voters = insert(insert(insert(EmptyMap, 1, <<0, 1>>),
                                                 2, <<0>>), 3, <<0>>)]
    IN  \A overflow_checks \in BOOLEAN :
            LET r1 == revoke_votes(q0, 0, 1, overflow_checks)
                r2 == revoke_votes(r1.p, 0, 2, overflow_checks)
                r3 == revoke_votes(r2.p, 0, 3, overflow_checks)
            IN  /\ r1.ret = Ok /\ r1.p.result = <<2, 0>>
                /\ r2.ret = Ok /\ r2.p.result = <<1, 0>>
                /\ r3.ret = Ok /\ r3.p.result = <<0, 0>>

(* C14: a successful revoke_votes(token) decrements result[idx] by exactly
   1 for each index recorded in voters[token] and leaves every other
   result entry, decrements voters_num by exactly 1, removes token from
   voters and leaves every other voter's entry; and the example of the
   unit test. *)
RevokeEffect ==
    (IsRevoke /\ last.ret = Ok) =>
        LET vote == last.pre.voters[RevokeToken]
        IN  /\ \A i \in Indexes(p) :
                   p.result[i + 1] =
                       last.pre.result[i + 1] - (IF i \in Range(vote) THEN 1 ELSE 0)
            /\ p.voters_num = last.pre.voters_num - 1
            /\ DOMAIN p.voters = DOMAIN last.pre.voters \ {RevokeToken}
            /\ \A t \in DOMAIN p.voters : p.voters[t] = last.pre.voters[t]
            /\ RevokeVotesExample

(* a vote for both candidates is revoked while another token's vote for
   one of them stays *)
RevokeEffectWitness ==
    /\ IsRevoke /\ last.ret = Ok
    /\ Len(last.pre.voters[RevokeToken]) = 2
    /\ \E t \in DOMAIN p.voters : Len(p.voters[t]) = 1
    /\ p.voters_num = last.pre.voters_num - 1
    /\ \E i \in Indexes(p) : p.result[i + 1] = 0

(* the unit test to_proposal_view: candidates acc2, acc1, acc3, acc4 *)
ToViewExample ==
    LET q == [NewProposal("CouncilOfAdvisors", 10, 111222, 1000, 2,
                          <<2, 1, 3, 4>>, <<10000, 5, 321, 121>>, 10)
                EXCEPT !.quorum = 551, !.min_candidate_support = 2]
    IN  to_view(q, 12) =
            [id |-> 12, typ |-> "CouncilOfAdvisors", ref_link |-> q.ref_link,
             start |-> 10, end |-> 111222, cooldown |-> 1000, quorum |-> 551,
             seats |-> 2, voters_num |-> 10,
             result |-> <<<<2, 10000>>, <<1, 5>>, <<3, 321>>, <<4, 121>>>>]

(* C15: the view's result has the length of candidates and its i-th
   element is the pair (candidates[i], result[i]); id is the id supplied;
   typ, ref_link, start, end, cooldown, quorum, seats and voters_num are
   those of the proposal; the proposal is not changed. *)
ToViewProjection ==
    (last.op = "to_view") =>
        LET v == last.ret
        IN  /\ Len(v.result) = Len(p.candidates)
            /\ \A i \in 1..Len(p.candidates) :
                   v.result[i] = <<p.candidates[i], p.result[i]>>
            /\ v.id = last.id
            /\ v.typ = p.typ /\ v.ref_link = p.ref_link
            /\ v.start = p.start /\ v.end = p.end /\ v.cooldown = p.cooldown
            /\ v.quorum = p.quorum /\ v.seats = p.seats
            /\ v.voters_num = p.voters_num
            /\ p = last.pre
            /\ ToViewExample

(* a view of three candidates with different tallies, of a proposal whose
   voter count is not its quorum *)
ToViewProjectionWitness ==
    /\ last.op = "to_view"
    /\ last.id = 12
    /\ Len(last.ret.result) = 3
    /\ last.ret.result[1][2] # last.ret.result[2][2]
    /\ p.voters_num # p.quorum
    /\ p.start # p.cooldown

(* C16: a successful vote_on_verified with one fresh token while ONGOING
   increments result[idx] by exactly 1 for the index idx of each candidate
   of the ballot and leaves every other entry, increments voters_num by
   exactly 1, makes voters[token] the list of those indexes in ballot
   order and user_sbt[voter] the token, and leaves all other voters
   entries. *)
VoteEffect ==
    (IsVote /\ last.ret = Ok) =>
        LET vote == last.vote
            voter == last.voter[1]
            idxs == p.voters[VoteToken]
        IN  /\ StatusAtCall = "ONGOING"
            /\ ~contains_key(last.pre.voters, VoteToken)
            /\ Len(idxs) = Len(vote)
            /\ \A k \in 1..Len(vote) : p.candidates[idxs[k] + 1] = vote[k]
            /\ \A i \in Indexes(p) :
                   p.result[i + 1] =
                       last.pre.result[i + 1]
                           + (IF p.candidates[i + 1] \in Range(vote) THEN 1 ELSE 0)
            /\ p.voters_num = last.pre.voters_num + 1
            /\ p.user_sbt[voter] = VoteToken
            /\ DOMAIN p.voters = DOMAIN last.pre.voters \cup {VoteToken}
            /\ \A t \in DOMAIN last.pre.voters : p.voters[t] = last.pre.voters[t]

(* a ballot naming the second candidate before the first is recorded,
   beside another token's entry *)
VoteEffectWitness ==
    /\ IsVote /\ last.ret = Ok
    /\ last.vote = <<3, 1>>
    /\ p.voters[VoteToken] = <<1, 0>>
    /\ DOMAIN last.pre.voters # {}
    /\ p.user_sbt[last.voter[1]] = VoteToken

(* C18: while ONGOING, vote_on_verified succeeds exactly when the token
   presented is no key of voters and fails with DoubleVote otherwise,
   whatever the account and whatever user_sbt holds; after a success the
   token is recorded beside the tokens recorded before and
   user_sbt[account] is the token of this vote, also for an account that
   voted before with another token. *)
TokenOnlyDuplicates ==
    (IsVote /\ StatusAtCall = "ONGOING") =>
        /\ last.ret \in {Ok, DoubleVote(VoteToken)}
        /\ last.ret = Ok <=> ~contains_key(last.pre.voters, VoteToken)
        /\ last.ret = Ok =>
               /\ DOMAIN p.voters = DOMAIN last.pre.voters \cup {VoteToken}
               /\ p.user_sbt[last.voter[1]] = VoteToken

(* an account that voted with one token votes with a second, fresh one *)
TokenOnlyDuplicatesWitness ==
    /\ IsVote /\ StatusAtCall = "ONGOING" /\ last.ret = Ok
    /\ contains_key(last.pre.user_sbt, last.voter[1])
    /\ last.pre.user_sbt[last.voter[1]] # VoteToken
    /\ contains_key(last.pre.voters, last.pre.user_sbt[last.voter[1]])
    /\ Cardinality(DOMAIN p.voters) = 2
    /\ p.user_sbt[last.voter[1]] = VoteToken

(* C19: with validated ballots and one token a call, every voters entry is
   a list of pairwise distinct indexes, each < len(candidates), of length
   <= seats; result[i] <= voters_num for every i; and sum(result) <=
   seats * voters_num. *)
TallyBound ==
    /\ \A t \in DOMAIN p.voters :
           LET e == p.voters[t]
           IN  /\ \A k \in 1..Len(e) : e[k] \in Indexes(p)
               /\ \A j, k \in 1..Len(e) : j # k => e[j] # e[k]
               /\ Len(e) <= p.seats
    /\ \A i \in Indexes(p) : p.result[i + 1] <= p.voters_num
    /\ SumSeq(p.result) <= p.seats * p.voters_num

(* one seat, two voters for the same candidate: the tally meets both
   bounds *)
TallyBoundWitness ==
    /\ p.seats = 1 /\ p.seats < Len(p.candidates)
    /\ Cardinality(DOMAIN p.voters) = 2
    /\ \E i \in Indexes(p) : p.result[i + 1] = 2 /\ p.result[i + 1] = p.voters_num
    /\ SumSeq(p.result) = p.seats * p.voters_num

(* C20: vote_on_verified and revoke_votes leave typ, ref_link, start, end,
   cooldown, quorum, seats, min_candidate_support, candidates and the
   length of result (which is the length of candidates); revoke_votes,
   successful or not, leaves user_sbt. *)
MutationFrame ==
    (IsVote \/ IsRevoke) =>
        /\ p.typ = last.pre.typ /\ p.ref_link = last.pre.ref_link
        /\ p.start = last.pre.start /\ p.end = last.pre.end
        /\ p.cooldown = last.pre.cooldown
        /\ p.quorum = last.pre.quorum /\ p.seats = last.pre.seats
        /\ p.min_candidate_support = last.pre.min_candidate_support
        /\ p.candidates = last.pre.candidates
        /\ Len(p.result) = Len(last.pre.result)
        /\ Len(p.result) = Len(p.candidates)
        /\ IsRevoke => p.user_sbt = last.pre.user_sbt

(* after a successful revoke the account that voted is still mapped to
   the revoked token *)
MutationFrameWitness ==
    /\ IsRevoke /\ last.ret = Ok
    /\ ~contains_key(p.voters, RevokeToken)
    /\ \E a \in DOMAIN p.user_sbt : p.user_sbt[a] = RevokeToken
    /\ p.result # last.pre.result

====
